---- MODULE Spec2Model ----
(***************************************************************************)
(* Model of the screencast portal backend (src/src/screencast.rs): the two *)
(* lock-protected registries SESSIONS and CAST_SESSIONS, and the RPC       *)
(* handlers create_session, select_sources and start of ScreenCastBackend, *)
(* together with append_cast_session / remove_cast_session.                *)
(*                                                                         *)
(* Every RPC is an async task; a task's position in its handler is pc[t].  *)
(* A step runs a handler from one suspension point (lock().await, an       *)
(* external call) to the next.  A tokio Mutex is a variable holding the    *)
(* task that owns the guard: a guard taken and dropped within one step     *)
(* needs the lock free and leaves it free; a guard kept across steps is    *)
(* recorded in sess_lock / cast_lock.                                      *)
(***************************************************************************)
EXTENDS Integers, Sequences, FiniteSets, TLC

\* ---------------------------------------------------------------- bounds
NumTasks == 2          \* concurrently serviced RPC invocations
MaxCalls == 4          \* RPC invocations begun in one behaviour
MaxOutputs == 2        \* length of the enumerated output list

\* ---------------------------------------------------------------- domains
Tasks == 1 .. NumTasks
NoTask == 0
Handles == {"h1", "h2"}
SessionTypes == {"ScreenCast", "Remote"}
CursorModes == {"Hidden", "Embedded"}
\* The cursor_mode a select_sources call asks for.
SelectModes == {"Embedded"}
\* One physical output: only dimensions.x / dimensions.y and mode.width /
\* mode.height are read by start.
Output(x, y, width, height) == [x |-> x, y |-> y, width |-> width, height |-> height]

\* The outputs start enumerates in the concurrent specification: two screens
\* side by side.
Display == << Output(0, 0, 2, 2), Output(2, 0, 2, 2) >>

\* Positions the region selector reports there: a screen's corner, or a point
\* that is the corner of none.
Selections == { << 0, 0 >>, << 1, 0 >> }

\* The outputs and positions the output matching is checked on.
OutputPool == { Output(px, 0, w, 2) : px \in {0, 2}, w \in {2, 4} }
MatchSelections == { << 0, 0 >>, << 2, 0 >>, << 1, 0 >>, << 0, 1 >> }

RECURSIVE SeqsUpTo(_, _)
SeqsUpTo(S, n) ==
    IF n = 0 THEN { <<>> }
    ELSE LET shorter == SeqsUpTo(S, n - 1)
         IN  shorter \cup { Append(s, e) : s \in { q \in shorter : Len(q) = n - 1 }, e \in S }

\* The output lists connection.get_all_outputs() may return.
OutputLists == SeqsUpTo(OutputPool, MaxOutputs)

\* ---------------------------------------------------------------- state
VARIABLES
    SESSIONS,        \* Vec<Session> behind sess_lock
    CAST_SESSIONS,   \* Vec<(String, ScreencastThread)> behind cast_lock
    sess_lock,       \* task owning the SESSIONS guard, or NoTask
    cast_lock,       \* task owning the CAST_SESSIONS guard, or NoTask
    workers,         \* every ScreencastThread ever started; node_id = index
    pc,              \* per task: position in its handler
    arg,             \* per task: the call's arguments
    loc,             \* per task: the handler's local variables
    result,          \* per task: the value the handler returned
    calls            \* number of RPC invocations begun

vars == << SESSIONS, CAST_SESSIONS, sess_lock, cast_lock, workers, pc, arg, loc, result, calls >>

NoArg == [op |-> "none", handle |-> "none", cursor_mode |-> "none"]
NoArea == [tag |-> "unset"]
NoLoc == [show_cursor |-> FALSE, outputs |-> <<>>, info |-> NoArea, output |-> 0,
          index |-> 0, cast_thread |-> 0]
NoResult == [kind |-> "none"]

\* PortalResponse / zbus::fdo::Result values a handler returns.
Success(node) == [kind |-> "Success", node_id |-> node]
SuccessEmpty == [kind |-> "Success", node_id |-> 0]
Other == [kind |-> "Other"]
Failure(msg) == [kind |-> "Err", msg |-> msg]
Closed == [kind |-> "Closed"]

\* Result<Option<AreaInfo>, _> values of libwaysip::get_area.
AreaSome(position) == [tag |-> "Some", position |-> position]
AreaNone == [tag |-> "None"]
AreaErr == [tag |-> "Err"]
AreaResults == { AreaSome(p) : p \in Selections } \cup { AreaNone, AreaErr }
MatchAreaResults == { AreaSome(p) : p \in MatchSelections } \cup { AreaNone, AreaErr }

\* ---------------------------------------------------------------- helpers
\* iter().position(|s| s.handle_path == h): first index, 0 for None.
Position(seq, h) ==
    IF \E i \in 1 .. Len(seq) : seq[i].handle = h
    THEN CHOOSE i \in 1 .. Len(seq) :
            /\ seq[i].handle = h
            /\ \A j \in 1 .. (i - 1) : seq[j].handle # h
    ELSE 0

\* Vec::remove(index)
RemoveAt(seq, i) == SubSeq(seq, 1, i - 1) \o SubSeq(seq, i + 1, Len(seq))

\* Session::new(handle, session_type): default preferences.
NewSession(h, ty) == [handle |-> h, session_type |-> ty, cursor_mode |-> "Hidden"]

\* session::append_session: insert, refused when the handle is present.
append_session(sessions, s) ==
    IF Position(sessions, s.handle) # 0 THEN sessions ELSE Append(sessions, s)

\* Session::set_screencast_options: overwrite the preference fields.
set_screencast_options(s, mode) == [s EXCEPT !.cursor_mode = mode]

\* CursorMode::show_cursor
show_cursor(mode) == mode # "Hidden"

\* ScreencastThread::start_cast (success): a new running worker, on which
\* stop has not been called.
start_cast(cursor, width, height) == [alive |-> TRUE, stops |-> 0]

\* ScreencastThread::stop
stop(w) == [w EXCEPT !.alive = FALSE, !.stops = @ + 1]

\* outputs.iter().find(|o| o.dimensions.x == x && o.dimensions.y == y):
\* index of the output found, 0 for None.
RECURSIVE FindFrom(_, _, _, _)
FindFrom(outputs, i, x, y) ==
    IF i > Len(outputs) THEN 0
    ELSE IF outputs[i].x = x /\ outputs[i].y = y THEN i
    ELSE FindFrom(outputs, i + 1, x, y)

\* Mutant of FindOutput: matches the first output that contains (x, y).
FindOutput_Contains(outputs, x, y) ==
    IF \E i \in 1 .. Len(outputs) :
          /\ outputs[i].x <= x /\ x < outputs[i].x + outputs[i].width
          /\ outputs[i].y <= y /\ y < outputs[i].y + outputs[i].height
    THEN CHOOSE i \in 1 .. Len(outputs) :
            /\ outputs[i].x <= x /\ x < outputs[i].x + outputs[i].width
            /\ outputs[i].y <= y /\ y < outputs[i].y + outputs[i].height
            /\ \A j \in 1 .. (i - 1) :
                  ~(/\ outputs[j].x <= x /\ x < outputs[j].x + outputs[j].width
                    /\ outputs[j].y <= y /\ y < outputs[j].y + outputs[j].height)
    ELSE 0

FindOutput(outputs, x, y) == FindFrom(outputs, 1, x, y)

\* ---------------------------------------------------------------- Init
Init ==
    /\ SESSIONS = <<>>
    /\ CAST_SESSIONS = <<>>
    /\ sess_lock = NoTask
    /\ cast_lock = NoTask
    /\ workers = <<>>
    /\ pc = [t \in Tasks |-> "idle"]
    /\ arg = [t \in Tasks |-> NoArg]
    /\ loc = [t \in Tasks |-> NoLoc]
    /\ result = [t \in Tasks |-> NoResult]
    /\ calls = 0

\* A handler returns: its value is recorded; its locals and guards are dropped.
Finish(t, r) ==
    /\ pc' = [pc EXCEPT ![t] = "done"]
    /\ result' = [result EXCEPT ![t] = r]
    /\ loc' = [loc EXCEPT ![t] = NoLoc]

\* A handler moves on to its next statement.
Goto(t, label) ==
    /\ pc' = [pc EXCEPT ![t] = label]
    /\ result' = [result EXCEPT ![t] = NoResult]
    /\ UNCHANGED loc

\* A handler binds a local variable and moves on.
Bind(t, label, locals) ==
    /\ pc' = [pc EXCEPT ![t] = label]
    /\ loc' = [loc EXCEPT ![t] = locals]
    /\ result' = [result EXCEPT ![t] = NoResult]

\* ---------------------------------------------------------------- dispatch
\* A task is free when it runs no handler.
Free(t) == pc[t] \in {"idle", "done"}

\* The object server dispatches an incoming method call to a task, the first
\* one that is free (tasks are interchangeable), and the handler runs up to
\* its first suspension point.
Call(t, op, h, mode) ==
    /\ Free(t)
    /\ \A u \in Tasks : u < t => ~Free(u)
    /\ calls < MaxCalls
    /\ calls' = calls + 1
    /\ arg' = [arg EXCEPT ![t] = [op |-> op, handle |-> h, cursor_mode |-> mode]]

\* Another backend of the portal registers a session of its own type.
CreateRemoteSession(t) ==
    /\ \E h \in Handles : Call(t, "create_remote", h, "none")
    /\ sess_lock = NoTask
    /\ SESSIONS' = append_session(SESSIONS, NewSession(arg'[t].handle, "Remote"))
    /\ Finish(t, SuccessEmpty)
    /\ UNCHANGED << CAST_SESSIONS, sess_lock, cast_lock, workers >>

\* ---------------------------------------------------------------- create_session
\* create_session is called; server.at(request_handle, RequestInterface {..}).await?
CreatePublishRequest(t) ==
    /\ \E h \in Handles : Call(t, "create_session", h, "none")
    /\ \E ok \in BOOLEAN :
          IF ok THEN Goto(t, "cs_append")
          ELSE Finish(t, Failure("publish request"))
    /\ UNCHANGED << SESSIONS, CAST_SESSIONS, sess_lock, cast_lock, workers >>

\* Mutant of CreateAppend: pushes the session whether or not the handle is
\* already registered.
CreateAppend_Push(t) ==
    /\ pc[t] = "cs_append"
    /\ sess_lock = NoTask
    /\ SESSIONS' = Append(SESSIONS, NewSession(arg[t].handle, "ScreenCast"))
    /\ Goto(t, "cs_session")
    /\ UNCHANGED << CAST_SESSIONS, sess_lock, cast_lock, workers, arg, calls >>

\* Session::new(..ScreenCast); append_session(current_session.clone()).await
CreateAppend(t) ==
    /\ pc[t] = "cs_append"
    /\ sess_lock = NoTask
    /\ SESSIONS' = append_session(SESSIONS, NewSession(arg[t].handle, "ScreenCast"))
    /\ Goto(t, "cs_session")
    /\ UNCHANGED << CAST_SESSIONS, sess_lock, cast_lock, workers, arg, calls >>

\* server.at(session_handle, current_session).await?; Ok(Success(..))
CreatePublishSession(t) ==
    /\ pc[t] = "cs_session"
    /\ \E ok \in BOOLEAN :
          IF ok THEN Finish(t, SuccessEmpty)
          ELSE Finish(t, Failure("publish session"))
    /\ UNCHANGED << SESSIONS, CAST_SESSIONS, sess_lock, cast_lock, workers, arg, calls >>

\* ---------------------------------------------------------------- select_sources
\* Mutant of SelectSources: an unknown handle is reported as an error.
SelectSources_Err(t) ==
    /\ \E h \in Handles, m \in SelectModes : Call(t, "select_sources", h, m)
    /\ sess_lock = NoTask
    /\ LET index == Position(SESSIONS, arg'[t].handle) IN
          IF index = 0
          THEN /\ Finish(t, Failure("no session"))
               /\ UNCHANGED SESSIONS
          ELSE /\ SESSIONS' = [SESSIONS EXCEPT
                     ![index] = set_screencast_options(@, arg'[t].cursor_mode)]
               /\ Finish(t, SuccessEmpty)
    /\ UNCHANGED << CAST_SESSIONS, sess_lock, cast_lock, workers >>

\* select_sources is called: SESSIONS.lock().await; position(..) else return
\* Other; set_screencast_options; Success.  The guard is dropped on return.
SelectSources(t) ==
    /\ \E h \in Handles, m \in SelectModes : Call(t, "select_sources", h, m)
    /\ sess_lock = NoTask
    /\ LET index == Position(SESSIONS, arg'[t].handle) IN
          IF index = 0
          THEN /\ Finish(t, Other)
               /\ UNCHANGED SESSIONS
          ELSE /\ SESSIONS' = [SESSIONS EXCEPT
                     ![index] = set_screencast_options(@, arg'[t].cursor_mode)]
               /\ Finish(t, SuccessEmpty)
    /\ UNCHANGED << CAST_SESSIONS, sess_lock, cast_lock, workers >>

\* ---------------------------------------------------------------- start
\* Mutant of StartCheck: the existing binding is not looked for.
StartCheck_NoReturn(t) ==
    /\ \E h \in Handles : Call(t, "start", h, "none")
    /\ cast_lock = NoTask
    /\ Goto(t, "st_lookup")
    /\ UNCHANGED << SESSIONS, CAST_SESSIONS, sess_lock, cast_lock, workers >>

\* start is called: CAST_SESSIONS.lock().await;
\* if let Some(session) = cast_sessions.iter().find(..) { return Success(node_id) }
\* drop(cast_sessions)
StartCheck(t) ==
    /\ \E h \in Handles : Call(t, "start", h, "none")
    /\ cast_lock = NoTask
    /\ LET found == Position(CAST_SESSIONS, arg'[t].handle) IN
          IF found # 0
          THEN Finish(t, Success(CAST_SESSIONS[found].worker))
          ELSE Goto(t, "st_lookup")
    /\ UNCHANGED << SESSIONS, CAST_SESSIONS, sess_lock, cast_lock, workers >>

\* Mutant of StartLookup: the SESSIONS guard is not dropped before the
\* selection.
StartLookup_KeepGuard(t) ==
    /\ pc[t] = "st_lookup"
    /\ sess_lock = NoTask
    /\ LET index == Position(SESSIONS, arg[t].handle) IN
          IF index = 0
          THEN Finish(t, Other) /\ UNCHANGED sess_lock
          ELSE IF SESSIONS[index].session_type # "ScreenCast"
          THEN Finish(t, Other) /\ UNCHANGED sess_lock
          ELSE /\ Bind(t, "st_select",
                    [loc[t] EXCEPT !.show_cursor = show_cursor(SESSIONS[index].cursor_mode)])
               /\ sess_lock' = t
    /\ UNCHANGED << SESSIONS, CAST_SESSIONS, cast_lock, workers, arg, calls >>

\* Mutant of StartLookup: the session_type is not checked.
StartLookup_AnyType(t) ==
    /\ pc[t] = "st_lookup"
    /\ sess_lock = NoTask
    /\ LET index == Position(SESSIONS, arg[t].handle) IN
          IF index = 0
          THEN Finish(t, Other)
          ELSE Bind(t, "st_select",
                    [loc[t] EXCEPT !.show_cursor = show_cursor(SESSIONS[index].cursor_mode)])
    /\ UNCHANGED << SESSIONS, CAST_SESSIONS, sess_lock, cast_lock, workers, arg, calls >>

\* SESSIONS.lock().await; position(..) else return Other; clone; session_type
\* check; drop(locked_sessions);
\* let show_cursor = current_session.cursor_mode.show_cursor()
StartLookup(t) ==
    /\ pc[t] = "st_lookup"
    /\ sess_lock = NoTask
    /\ LET index == Position(SESSIONS, arg[t].handle) IN
          IF index = 0
          THEN Finish(t, Other)
          ELSE IF SESSIONS[index].session_type # "ScreenCast"
          THEN Finish(t, Other)
          ELSE Bind(t, "st_select",
                    [loc[t] EXCEPT !.show_cursor = show_cursor(SESSIONS[index].cursor_mode)])
    /\ UNCHANGED << SESSIONS, CAST_SESSIONS, sess_lock, cast_lock, workers, arg, calls >>

\* let connection = WayshotConnection::new().unwrap();
\* let outputs = connection.get_all_outputs();
\* libwaysip::get_area(WaySipKind::Screen): blocks until the user has chosen
\* a screen or cancelled, or the selector has failed.
StartGetArea(t) ==
    /\ pc[t] = "st_select"
    /\ \E ok \in BOOLEAN :
          IF ok
          THEN \E area \in AreaResults :
                  Bind(t, "st_match", [loc[t] EXCEPT !.outputs = Display, !.info = area])
          ELSE Goto(t, "panicked")
    /\ UNCHANGED << SESSIONS, CAST_SESSIONS, sess_lock, cast_lock, workers, arg, calls >>

\* let info = match .. { Ok(Some(info)) => info, Ok(None) => return Err(..),
\* Err(e) => return Err(..) };  let (x, y) = ..get_position();
\* let Some(output) = outputs.iter().find(..) else { return Ok(Other) }
StartMatch(t) ==
    /\ pc[t] = "st_match"
    /\ IF loc[t].info = AreaNone THEN Finish(t, Failure("You cancel it"))
       ELSE IF loc[t].info = AreaErr THEN Finish(t, Failure("wayland error"))
       ELSE LET x == loc[t].info.position[1]
                y == loc[t].info.position[2]
                output == FindOutput(loc[t].outputs, x, y)
            IN  IF output = 0
                THEN Finish(t, Other)
                ELSE Bind(t, "st_cast", [loc[t] EXCEPT !.output = output])
    /\ UNCHANGED << SESSIONS, CAST_SESSIONS, sess_lock, cast_lock, workers, arg, calls >>

\* Mutant of StartCastThread: a worker whose start failed is left running.
StartCastThread_Leak(t) ==
    /\ pc[t] = "st_cast"
    /\ \E ok \in BOOLEAN :
          LET output == loc[t].outputs[loc[t].output] IN
          /\ workers' = Append(workers,
                 start_cast(loc[t].show_cursor, output.width, output.height))
          /\ IF ok
             THEN Bind(t, "st_append", [NoLoc EXCEPT !.output = loc[t].output,
                                                    !.cast_thread = Len(workers) + 1])
             ELSE Finish(t, Failure("cannot start pipewire stream"))
    /\ UNCHANGED << SESSIONS, CAST_SESSIONS, sess_lock, cast_lock, arg, calls >>

\* ScreencastThread::start_cast(show_cursor, width, height, None, wl_output)
\*     .await.map_err(..)?;  let node_id = cast_thread.node_id()
\* (show_cursor, outputs and info are not read after this statement)
StartCastThread(t) ==
    /\ pc[t] = "st_cast"
    /\ \E ok \in BOOLEAN :
          IF ok
          THEN LET output == loc[t].outputs[loc[t].output] IN
               /\ workers' = Append(workers,
                      start_cast(loc[t].show_cursor, output.width, output.height))
               /\ Bind(t, "st_append", [NoLoc EXCEPT !.output = loc[t].output,
                                                    !.cast_thread = Len(workers) + 1])
          ELSE /\ Finish(t, Failure("cannot start pipewire stream"))
               /\ UNCHANGED workers
    /\ UNCHANGED << SESSIONS, CAST_SESSIONS, sess_lock, cast_lock, arg, calls >>

\* Mutant of append_cast_session: the binding of a handle that has one is
\* replaced.
append_cast_session_Replace(cast_sessions, session) ==
    LET index == Position(cast_sessions, session.handle) IN
    IF index = 0 THEN Append(cast_sessions, session)
    ELSE [cast_sessions EXCEPT ![index] = session]

\* pub async fn append_cast_session: lock, push
append_cast_session(cast_sessions, session) == Append(cast_sessions, session)

\* append_cast_session((session_handle.to_string(), cast_thread)).await;
\* Ok(Success(StartReturnValue { streams: vec![Stream(node_id, ..)] }))
StartAppend(t) ==
    /\ pc[t] = "st_append"
    /\ cast_lock = NoTask
    /\ CAST_SESSIONS' = append_cast_session(CAST_SESSIONS,
                            [handle |-> arg[t].handle, worker |-> loc[t].cast_thread])
    /\ Finish(t, Success(loc[t].cast_thread))
    /\ UNCHANGED << SESSIONS, sess_lock, cast_lock, workers, arg, calls >>

\* ---------------------------------------------------------------- remove_cast_session
\* Mutant of RemoveCastStop: the guard is dropped once the worker is stopped,
\* before the binding is removed.
RemoveCastStop_DropGuard(t) ==
    /\ \E h \in Handles : Call(t, "teardown", h, "none")
    /\ cast_lock = NoTask
    /\ LET index == Position(CAST_SESSIONS, arg'[t].handle) IN
          IF index = 0
          THEN /\ Goto(t, "td_session")
               /\ UNCHANGED workers
          ELSE /\ workers' = [workers EXCEPT ![CAST_SESSIONS[index].worker] = stop(@)]
               /\ Bind(t, "rcs_remove", [loc[t] EXCEPT !.index = index])
    /\ UNCHANGED << SESSIONS, CAST_SESSIONS, sess_lock, cast_lock >>

\* A session object is released and its teardown calls remove_cast_session:
\* CAST_SESSIONS.lock().await;
\* let Some(index) = ..position(..) else { return };  sessions[index].1.stop()
RemoveCastStop(t) ==
    /\ \E h \in Handles : Call(t, "teardown", h, "none")
    /\ cast_lock = NoTask
    /\ LET index == Position(CAST_SESSIONS, arg'[t].handle) IN
          IF index = 0
          THEN /\ Goto(t, "td_session")
               /\ UNCHANGED << workers, cast_lock >>
          ELSE /\ workers' = [workers EXCEPT ![CAST_SESSIONS[index].worker] = stop(@)]
               /\ Bind(t, "rcs_remove", [loc[t] EXCEPT !.index = index])
               /\ cast_lock' = t
    /\ UNCHANGED << SESSIONS, CAST_SESSIONS, sess_lock >>

\* sessions.remove(index); the guard is dropped on return
RemoveCastRemove(t) ==
    /\ pc[t] = "rcs_remove"
    /\ cast_lock = t
    /\ CAST_SESSIONS' = RemoveAt(CAST_SESSIONS, loc[t].index)
    /\ cast_lock' = NoTask
    /\ Bind(t, "td_session", NoLoc)
    /\ UNCHANGED << SESSIONS, sess_lock, workers, arg, calls >>

\* session::remove_session: the Session Entity leaves the Session Registry.
remove_session(sessions, h) ==
    LET index == Position(sessions, h) IN
    IF index = 0 THEN sessions ELSE RemoveAt(sessions, index)

\* Teardown of a released session object, after remove_cast_session returned.
TeardownRemoveSession(t) ==
    /\ pc[t] = "td_session"
    /\ sess_lock = NoTask
    /\ SESSIONS' = remove_session(SESSIONS, arg[t].handle)
    /\ Finish(t, Closed)
    /\ UNCHANGED << CAST_SESSIONS, sess_lock, cast_lock, workers, arg, calls >>

\* ---------------------------------------------------------------- specification
Next ==
    \/ \E t \in Tasks : CreateRemoteSession(t)
    \/ \E t \in Tasks : CreatePublishRequest(t)
    \/ \E t \in Tasks : CreateAppend(t)
    \/ \E t \in Tasks : CreatePublishSession(t)
    \/ \E t \in Tasks : SelectSources(t)
    \/ \E t \in Tasks : StartCheck(t)
    \/ \E t \in Tasks : StartLookup(t)
    \/ \E t \in Tasks : StartGetArea(t)
    \/ \E t \in Tasks : StartMatch(t)
    \/ \E t \in Tasks : StartCastThread(t)
    \/ \E t \in Tasks : StartAppend(t)
    \/ \E t \in Tasks : RemoveCastStop(t)
    \/ \E t \in Tasks : RemoveCastRemove(t)
    \/ \E t \in Tasks : TeardownRemoveSession(t)

Spec == Init /\ [][Next]_vars

\* The output matching on its own: a start call of a ScreenCast session to
\* which the selector has just returned, for every list of outputs and every
\* selector result.
InitMatch ==
    /\ SESSIONS = << NewSession("h1", "ScreenCast") >>
    /\ CAST_SESSIONS = <<>>
    /\ sess_lock = NoTask
    /\ cast_lock = NoTask
    /\ workers = <<>>
    /\ pc = [t \in Tasks |-> IF t = 1 THEN "st_match" ELSE "idle"]
    /\ arg = [t \in Tasks |->
                IF t = 1 THEN [op |-> "start", handle |-> "h1", cursor_mode |-> "none"]
                ELSE NoArg]
    /\ \E outs \in OutputLists, area \in MatchAreaResults :
          loc = [t \in Tasks |->
                   IF t = 1 THEN [NoLoc EXCEPT !.outputs = outs, !.info = area] ELSE NoLoc]
    /\ result = [t \in Tasks |-> NoResult]
    /\ calls = MaxCalls

NextMatch ==
    \/ \E t \in Tasks : StartMatch(t)
    \/ \E t \in Tasks : StartCastThread(t)
    \/ \E t \in Tasks : StartAppend(t)

SpecMatch == InitMatch /\ [][NextMatch]_vars

TypeOK ==
    /\ sess_lock \in Tasks \cup {NoTask}
    /\ cast_lock \in Tasks \cup {NoTask}
    /\ calls \in 0 .. MaxCalls
    /\ \A i \in 1 .. Len(CAST_SESSIONS) :
          /\ CAST_SESSIONS[i].handle \in Handles
          /\ CAST_SESSIONS[i].worker \in 1 .. Len(workers)
    /\ \A i \in 1 .. Len(SESSIONS) :
          /\ SESSIONS[i].handle \in Handles
          /\ SESSIONS[i].session_type \in SessionTypes
          /\ SESSIONS[i].cursor_mode \in CursorModes

\* ---------------------------------------------------------------- properties
\* Task t takes a step out of the statement labelled l.
Leaves(t, l) == pc[t] = l /\ pc'[t] # l

\* The step is the call of handler op, dispatched to task t.
Called(t, op) ==
    /\ calls' = calls + 1
    /\ Free(t)
    /\ \A u \in Tasks : u < t => ~Free(u)
    /\ arg'[t].op = op

\* C1: in every reachable state, the Cast Registry holds at most one binding
\* per session handle, whatever the interleaving of concurrent start calls.
C1_AtMostOneBindingPerHandle ==
    \A i, j \in 1 .. Len(CAST_SESSIONS) :
        CAST_SESSIONS[i].handle = CAST_SESSIONS[j].handle => i = j

\* C2: when start examines the Cast Registry and a binding exists for its
\* handle, it returns Success with that binding's node_id at once (so the
\* region selector is never reached), starts no worker and leaves the Cast
\* Registry unchanged, so that a second start returns the same node_id.
C2_ExistingBindingReturned ==
    [][ \A t \in Tasks :
          (Called(t, "start") /\ Position(CAST_SESSIONS, arg'[t].handle) # 0) =>
              LET binding == CAST_SESSIONS[Position(CAST_SESSIONS, arg'[t].handle)] IN
              /\ pc'[t] = "done"
              /\ result'[t] = Success(binding.worker)
              /\ workers' = workers
              /\ CAST_SESSIONS' = CAST_SESSIONS
              /\ CAST_SESSIONS'[Position(CAST_SESSIONS', arg'[t].handle)].worker
                     = result'[t].node_id
      ]_vars

\* C2 witness: two start calls on one handle have both returned Success with
\* the same node_id, so one of them returned an existing binding.
C2_Witness ==
    \E t, u \in Tasks :
        /\ t # u
        /\ pc[t] = "done" /\ pc[u] = "done"
        /\ arg[t].op = "start" /\ arg[u].op = "start"
        /\ arg[t].handle = arg[u].handle
        /\ result[t].kind = "Success" /\ result[u] = result[t]
        /\ Position(CAST_SESSIONS, arg[t].handle) # 0

\* C3: when remove_cast_session removes the binding of a handle, that
\* binding's worker has been stopped exactly once and a lookup of the handle
\* in the Cast Registry afterwards finds no binding.
C3_RemoveStopsOnceAndUnbinds ==
    [][ \A t \in Tasks :
          Leaves(t, "rcs_remove") =>
              /\ workers'[CAST_SESSIONS[loc[t].index].worker].stops = 1
              /\ Position(CAST_SESSIONS', arg[t].handle) = 0
      ]_vars

\* C4: a start call blocked in the region selection holds neither registry
\* lock, and whoever holds a registry lock across a suspension-free stretch
\* is at a statement that needs nothing else to go on and release it; so no
\* call of another session is ever kept from the locks by a pending
\* selection.
C4_NoLockHeldWhileSelecting ==
    /\ \A t \in Tasks :
          pc[t] = "st_select" => (sess_lock # t /\ cast_lock # t)
    /\ sess_lock = NoTask
    /\ cast_lock # NoTask => pc[cast_lock] = "rcs_remove"

\* C4 witness: the start calls of two sessions are both blocked in the region
\* selection and both registry locks are free.
C4_Witness ==
    \E t, u \in Tasks :
        /\ pc[t] = "st_select" /\ pc[u] = "st_select"
        /\ arg[t].handle # arg[u].handle
        /\ sess_lock = NoTask /\ cast_lock = NoTask

C6_SelectUnknownHandle ==
    [][ \A t \in Tasks :
          (Called(t, "select_sources") /\ Position(SESSIONS, arg'[t].handle) = 0) =>
              /\ pc'[t] = "done"
              /\ result'[t] = Other
              /\ SESSIONS' = SESSIONS
              /\ CAST_SESSIONS' = CAST_SESSIONS
      ]_vars

\* C6 witness: a select_sources call on an unknown handle has returned.
C6_Witness ==
    \E t \in Tasks :
        /\ pc[t] = "done"
        /\ arg[t].op = "select_sources"
        /\ Position(SESSIONS, arg[t].handle) = 0
        /\ result[t] = Other

\* C7: a start call that got past the binding check and finds its Session
\* Entity absent or of a type other than ScreenCast returns Other at once
\* (the region selector is never reached), starts no worker and inserts no
\* binding.
C7_StartWithoutScreenCastSession ==
    [][ \A t \in Tasks :
          (/\ Leaves(t, "st_lookup")
           /\ LET index == Position(SESSIONS, arg[t].handle) IN
                 \/ index = 0
                 \/ SESSIONS[index].session_type # "ScreenCast") =>
              /\ pc'[t] = "done"
              /\ result'[t] = Other
              /\ workers' = workers
              /\ CAST_SESSIONS' = CAST_SESSIONS
      ]_vars

\* C7 witness: start has returned Other for a session of another type, no
\* other call having been made than the one that registered that session.
C7_Witness ==
    \E t \in Tasks :
        /\ calls = 2
        /\ pc[t] = "done"
        /\ arg[t].op = "start"
        /\ result[t] = Other
        /\ Position(SESSIONS, arg[t].handle) # 0
        /\ SESSIONS[Position(SESSIONS, arg[t].handle)].session_type = "Remote"
        /\ CAST_SESSIONS = <<>> /\ workers = <<>>

\* The indices of the outputs whose position is exactly (x, y).
AtPosition(outputs, x, y) ==
    { i \in 1 .. Len(outputs) : outputs[i].x = x /\ outputs[i].y = y }

\* The outputs that contain the point (x, y).
Containing(outputs, x, y) ==
    { i \in 1 .. Len(outputs) :
        /\ outputs[i].x <= x /\ x < outputs[i].x + outputs[i].width
        /\ outputs[i].y <= y /\ y < outputs[i].y + outputs[i].height }

\* C8: for a selected coordinate (x, y), the matching step of start goes on
\* with the first output in list order whose position is exactly (x, y), and
\* returns Other, with no worker started and no binding inserted, when no
\* output has that position (also when (x, y) lies inside an output).
C8_FirstOutputAtExactPosition ==
    [][ \A t \in Tasks :
          (Leaves(t, "st_match") /\ loc[t].info.tag = "Some") =>
              LET x == loc[t].info.position[1]
                  y == loc[t].info.position[2]
                  at == AtPosition(loc[t].outputs, x, y)
              IN  IF at = {}
                  THEN /\ pc'[t] = "done"
                       /\ result'[t] = Other
                       /\ workers' = workers
                       /\ CAST_SESSIONS' = CAST_SESSIONS
                  ELSE /\ pc'[t] = "st_cast"
                       /\ loc'[t].output \in at
                       /\ \A i \in at : loc'[t].output <= i
      ]_vars

\* C8 witness: the second of two outputs has been matched, the first one
\* containing the selected coordinate without being at it.
C8_Witness ==
    \E t \in Tasks :
        /\ pc[t] = "st_cast"
        /\ loc[t].output = 2
        /\ 1 \in Containing(loc[t].outputs, loc[t].info.position[1], loc[t].info.position[2])

\* C9: whenever a lookup in the Cast Registry (the binding check of start,
\* the position search of remove_cast_session) finds a binding, stop has not
\* been called on that binding's worker; in particular start never returns
\* the node_id of a stopped worker from its binding check.
C9_LookupFindsLiveWorker ==
    [][ \A t \in Tasks :
          ((Called(t, "start") \/ Called(t, "teardown"))
             /\ Position(CAST_SESSIONS, arg'[t].handle) # 0) =>
              LET binding == CAST_SESSIONS[Position(CAST_SESSIONS, arg'[t].handle)] IN
              /\ workers[binding.worker].alive
              /\ workers[binding.worker].stops = 0
              /\ (arg'[t].op = "start" =>
                     /\ result'[t].kind = "Success"
                     /\ workers'[result'[t].node_id].alive)
      ]_vars

\* C9 witness: remove_cast_session has stopped a handle's worker and not yet
\* removed the binding, while a task is free to run a start call for that
\* handle.
C9_Witness ==
    \E t, u \in Tasks :
        /\ pc[t] = "rcs_remove"
        /\ Position(CAST_SESSIONS, arg[t].handle) = loc[t].index
        /\ ~workers[CAST_SESSIONS[loc[t].index].worker].alive
        /\ Free(u) /\ calls < MaxCalls

\* C10: when the region selector reports a cancellation, start returns a
\* protocol-level response, never a transport-level error, and one that
\* differs from what a selector failure yields.
C10_CancelIsProtocolLevel ==
    [][ \A t \in Tasks :
          (Leaves(t, "st_match") /\ loc[t].info = AreaNone) =>
              /\ pc'[t] = "done"
              /\ result'[t].kind # "Err"
      ]_vars

\* C11: create_session called with a handle that is already present in the
\* Session Registry does not return Success: it ends with a failed create
\* outcome, not a crash, and leaves the Session Registry unchanged.  Stated
\* for the calls whose collision is visible in the state: the call is the
\* second one ever made, nothing else runs, and the handle's Session Entity
\* is one that another backend had registered.
C11_CreateOnPresentHandleFails ==
    [][ \A t \in Tasks :
          (/\ Leaves(t, "cs_session")
           /\ calls = 2
           /\ \A u \in Tasks : u # t => pc[u] = "idle"
           /\ Position(SESSIONS, arg[t].handle) # 0
           /\ SESSIONS[Position(SESSIONS, arg[t].handle)].session_type = "Remote") =>
              /\ pc'[t] = "done"
              /\ result'[t].kind \in {"Err", "Other"}
              /\ SESSIONS' = SESSIONS
      ]_vars

\* C12: no call of create_session, select_sources or start ever ends in a
\* crash: every failure inside them, a failure to connect to the display
\* server in start included, ends with a structured outcome returned to the
\* caller.
C12_NoHandlerPanics ==
    \A t \in Tasks :
        /\ pc[t] # "panicked"
        /\ (pc[t] = "done" /\ arg[t].op \in {"create_session", "select_sources", "start"}) =>
               result[t].kind \in {"Success", "Other", "Err"}

\* The bindings of the Cast Registry that hold worker w.
Holding(w) == { i \in 1 .. Len(CAST_SESSIONS) : CAST_SESSIONS[i].worker = w }

\* C13: in every reachable state, a capture worker is alive (started and not
\* stopped) if and only if a binding holding it is in the Cast Registry: no
\* started worker is outside the registry and no binding holds a stopped
\* worker.
C13_AliveIffBound ==
    \A w \in 1 .. Len(workers) : workers[w].alive <=> Holding(w) # {}

\* C14: remove_cast_session takes the entry out of the Cast Registry before
\* it calls the worker's stop, and calls stop before it returns: stop is
\* never called on a worker whose entry is still in the registry, and the
\* worker of a removed entry is stopped when remove_cast_session returns.
C14_RemoveThenStop ==
    [][ /\ \A w \in 1 .. Len(workers) :
              workers'[w].stops # workers[w].stops => Holding(w) = {}
        /\ \A t \in Tasks :
              Leaves(t, "rcs_remove") =>
                  ~workers'[CAST_SESSIONS[loc[t].index].worker].alive
      ]_vars

\* Task t performs an external call in this step: the display connection,
\* output enumeration and region selection, the start of a capture worker,
\* or the stop of one.
External(t) ==
    \/ Leaves(t, "st_select")
    \/ Leaves(t, "st_cast")
    \/ Called(t, "teardown") /\ workers' # workers

\* C15: no operation holds a registry lock while it performs an external
\* call (region selection, output enumeration, worker start, worker stop) or
\* while it acquires the other registry's lock: a step with an external call
\* is taken by a task that holds no guard before, during or after the call,
\* and a task that holds the guard of one registry does not touch the other.
C15_LockScopeInMemoryOnly ==
    [][ \A t \in Tasks :
          /\ External(t) =>
                /\ sess_lock # t /\ cast_lock # t
                /\ sess_lock' # t /\ cast_lock' # t
          /\ (cast_lock = t /\ pc'[t] # pc[t]) =>
                (SESSIONS' = SESSIONS /\ sess_lock' # t)
          /\ ~(sess_lock = t /\ cast_lock = t)
      ]_vars

\* Task t takes a step of a start call past the binding check.
StartStep(t) ==
    /\ arg[t].op = "start"
    /\ pc[t] \in {"st_lookup", "st_select", "st_match", "st_cast", "st_append"}
    /\ pc'[t] # pc[t]

\* C16: a start call that ends without success (selection cancelled, selector
\* failed, no output matched, worker failed to start, no ScreenCast session)
\* has changed neither registry, for any session, and has left no capture
\* worker running: its last step changes nothing and it holds no worker, and
\* a start call that did start a worker or insert a binding ends with
\* Success.
C16_FailedStartChangesNothing ==
    [][ \A t \in Tasks :
          /\ (StartStep(t) /\ pc'[t] = "done" /\ result'[t].kind # "Success") =>
                /\ SESSIONS' = SESSIONS
                /\ CAST_SESSIONS' = CAST_SESSIONS
                /\ workers' = workers
                /\ loc[t].cast_thread = 0
          /\ (StartStep(t) /\ << SESSIONS, CAST_SESSIONS, workers >>'
                                  # << SESSIONS, CAST_SESSIONS, workers >>) =>
                \/ pc'[t] = "st_append" /\ loc'[t].cast_thread = Len(workers')
                \/ pc'[t] = "done" /\ result'[t].kind = "Success"
          /\ Leaves(t, "st_append") =>
                (pc'[t] = "done" /\ result'[t].kind = "Success")
          /\ Called(t, "start") =>
                << SESSIONS, CAST_SESSIONS, workers >>' = << SESSIONS, CAST_SESSIONS, workers >>
      ]_vars

\* C16 witness: a start call has ended with the failure of its worker's
\* start while another session has its binding and its running worker.
C16_Witness ==
    \E t \in Tasks :
        /\ pc[t] = "done"
        /\ arg[t].op = "start"
        /\ result[t] = Failure("cannot start pipewire stream")
        /\ Position(CAST_SESSIONS, arg[t].handle) = 0
        /\ \E i \in 1 .. Len(CAST_SESSIONS) :
              /\ CAST_SESSIONS[i].handle # arg[t].handle
              /\ workers[CAST_SESSIONS[i].worker].alive
        /\ \A w \in 1 .. Len(workers) : workers[w].alive => Holding(w) # {}

\* C17: no start call removes or replaces a binding or stops a worker: a
\* binding stays in the Cast Registry, with the same worker, through every
\* step that is not the removal of remove_cast_session; a removal takes out
\* the one binding it had found; an insert adds a binding of a worker that no
\* binding holds; and no binding is removed twice (its worker is stopped at
\* most once and is held by at most one binding).
C17_BindingsOnlyRemovedByRemove ==
    [][ /\ (\A t \in Tasks : ~Leaves(t, "rcs_remove")) =>
              /\ Len(CAST_SESSIONS') >= Len(CAST_SESSIONS)
              /\ SubSeq(CAST_SESSIONS', 1, Len(CAST_SESSIONS)) = CAST_SESSIONS
              /\ \A i \in (Len(CAST_SESSIONS) + 1) .. Len(CAST_SESSIONS') :
                    Holding(CAST_SESSIONS'[i].worker) = {}
        /\ \A t \in Tasks :
              /\ (StartStep(t) \/ Called(t, "start")) =>
                    SubSeq(workers', 1, Len(workers)) = workers
              /\ Leaves(t, "rcs_remove") =>
                    /\ CAST_SESSIONS' = RemoveAt(CAST_SESSIONS, loc[t].index)
                    /\ CAST_SESSIONS[loc[t].index].handle = arg[t].handle
        /\ \A w \in 1 .. Len(workers') :
              /\ workers'[w].stops <= 1
              /\ \A i, j \in 1 .. Len(CAST_SESSIONS') :
                    (CAST_SESSIONS'[i].worker = w /\ CAST_SESSIONS'[j].worker = w) => i = j
      ]_vars

\* C17 witness: a start call has inserted a binding while the handle had one,
\* which stayed as it was, and remove_cast_session has then removed that
\* first binding and only it, its worker stopped once.
C17_Witness ==
    \E t \in Tasks :
        /\ pc[t] = "td_session" /\ arg[t].op = "teardown"
        /\ Len(workers) = 2
        /\ workers[1].stops = 1 /\ workers[2].alive
        /\ CAST_SESSIONS = << [handle |-> arg[t].handle, worker |-> 2] >>

\* C18: in every reachable state, every binding in the Cast Registry refers
\* to a session handle that is present in the Session Registry; so a
\* teardown that runs while a start call of its session is between the
\* session lookup and the binding insert leaves no binding of the torn-down
\* handle, and no running worker for it.
C18_BindingsHaveSessions ==
    \A i \in 1 .. Len(CAST_SESSIONS) :
        Position(SESSIONS, CAST_SESSIONS[i].handle) # 0

\* C19: between the creation of a session and its teardown, all the start
\* calls of the session that return Success return the same node_id, however
\* they interleave.  Stated on the states in which no teardown can have
\* happened: three calls have been made, one of which created the session
\* and two of which are start calls that have returned Success.
C19_OneNodeIdPerSession ==
    \A t, u \in Tasks :
        (/\ calls <= 3
         /\ t # u
         /\ pc[t] = "done" /\ pc[u] = "done"
         /\ arg[t].op = "start" /\ arg[u].op = "start"
         /\ arg[t].handle = arg[u].handle
         /\ result[t].kind = "Success" /\ result[u].kind = "Success") =>
            result[t].node_id = result[u].node_id

\* C20: a create_session call that returns an error (the publishing of the
\* request object or of the session object failed) leaves the Session
\* Registry as it was before the call, with no Session Entity that the call
\* added.  Stated for the first call ever made, before which the registry is
\* empty.
C20_FailedCreateAddsNothing ==
    [][ \A t \in Tasks :
          (/\ Called(t, "create_session") \/ Leaves(t, "cs_session")
           /\ arg'[t].op = "create_session"
           /\ calls' = 1
           /\ pc'[t] = "done"
           /\ result'[t].kind = "Err") =>
              SESSIONS' = <<>>
      ]_vars

====
